---- MODULE Spec2Model ----
(***************************************************************************)
(* Model of oxford_lieder_2021-extract_concert_ticket_details.py: the      *)
(* pipeline of main() (load, extract, group ticket rows, explode, merge,   *)
(* export), one action per step of main and one per iteration of the two   *)
(* extraction loops.                                                       *)
(*                                                                         *)
(* Representation of the data:                                             *)
(*  - a Python dict is a sequence of entries in insertion order;           *)
(*  - a DataFrame is a sequence of row records together with its columns;  *)
(*  - a text that the program inspects character by character (the venue   *)
(*    type) is a sequence of one-character strings;                        *)
(*  - a price text "£p.ff" is the number of pence it denotes;              *)
(*  - "\n".join(parts) is the record [sep, parts], so that the later       *)
(*    replace("\n", "<br>") is a change of the separator.                  *)
(* The rows of the two documents are read one per loop iteration: the      *)
(* variables event_list and ticket_detail_list hold the part of the list   *)
(* the loop has iterated over so far, the rest is the environment's.       *)
(***************************************************************************)
EXTENDS Integers, Sequences, FiniteSets, TLC

VARIABLES
    pc,                  \* position in main()
    exc,                 \* the uncaught exception that ended the run, or NoException
    stdout,              \* the lines printed so far
    event_soup,          \* result of load_html for the event page
    ticket_soup,         \* result of load_html for the ticket page
    event_list,          \* event blocks iterated over so far
    event_metadata_list, \* records built by extract_event_metadata
    ticket_detail_list,  \* ticket rows iterated over so far
    ticket_details,      \* the dict built by extract_ticket_price_options
    last_event_url_key,  \* its scan accumulator
    event_df,
    ticket_df,
    merged_df,
    shape,               \* (num_rows, num_cols) of merged_df
    files                \* what this run wrote to each output file

vars == <<pc, exc, stdout, event_soup, ticket_soup, event_list, event_metadata_list,
          ticket_detail_list, ticket_details, last_event_url_key, event_df,
          ticket_df, merged_df, shape, files>>

-----------------------------------------------------------------------------
(* Bounds of the model *)

MaxRows == 3

MaxEvents == 2

-----------------------------------------------------------------------------
(* Column schema *)

TICKET_METADATA_COLUMNS == <<"ticket_type", "venue_type", "is_streaming", "ticket_price_gbp">>

ALL_COLUMNS ==
    <<"date", "time", "title", "artists", "description", "venue">>
    \o TICKET_METADATA_COLUMNS
    \o <<"interested", "categories", "short_url", "long_url">>

Range(s) == {s[i] : i \in 1..Len(s)}

EVENT_METADATA_COLUMNS ==
    SelectSeq(ALL_COLUMNS, LAMBDA c : c \notin Range(TICKET_METADATA_COLUMNS))

-----------------------------------------------------------------------------
(* Values *)

None == "None"

NoException == "none"

\* "In-person only"
VenueInPersonOnly ==
    <<"I","n","-","p","e","r","s","o","n"," ","o","n","l","y">>

\* "In-person & Streaming (Digital Concert Hall)"
VenueInPersonAndStreaming ==
    <<"I","n","-","p","e","r","s","o","n"," ","&"," ","S","t","r","e","a","m","i","n","g",
      " ","(","D","i","g","i","t","a","l"," ","C","o","n","c","e","r","t"," ","H","a","l","l",")">>

UpperCase == <<"A","B","C","D","E","F","G","H","I","J","K","L","M",
               "N","O","P","Q","R","S","T","U","V","W","X","Y","Z">>

LowerCase == <<"a","b","c","d","e","f","g","h","i","j","k","l","m",
               "n","o","p","q","r","s","t","u","v","w","x","y","z">>

\* str.lower(), character by character
Lower(text) ==
    [i \in 1..Len(text) |->
        IF \E k \in 1..Len(UpperCase) : UpperCase[k] = text[i]
        THEN LowerCase[CHOOSE k \in 1..Len(UpperCase) : UpperCase[k] = text[i]]
        ELSE text[i]]

\* needle in text
Contains(text, needle) ==
    \E i \in 0..(Len(text) - Len(needle)) :
        \A j \in 1..Len(needle) : text[i + j] = needle[j]

return_if_venue_has_streaming(venue_type) ==
    \E venue \in {<<"s","t","r","e","a","m">>} : Contains(Lower(venue_type), venue)

\* the price in pence: the decimal point dropped instead of the fraction
ParsePricePence(pence) == pence

\* int(float(text.replace("£", ""))) of a price text of `pence` pence:
\* float() gives pence/100 and int() drops the fraction
ParsePrice(pence) == pence \div 100

-----------------------------------------------------------------------------
(* Ticket rows: extract_ticket_price_options *)

\* row.select_one('a[href^="/event"]') found no anchor
NoAnchor == None

TicketHrefs == {"/event/1", "/event/2"}

\* The lines of the third cell (text.strip().split("\n")) and the price text of the
\* fourth. The last cell, which has one line only, is the malformed one.
TicketCells ==
    { [lines |-> <<"Full price", VenueInPersonOnly>>, price |-> 1500],
      [lines |-> <<"Under 35s", VenueInPersonAndStreaming, "Limited">>, price |-> 2500],
      [lines |-> <<"Full price">>, price |-> 1500] }

TicketRows ==
    { [anchor |-> a, lines |-> c.lines, price |-> c.price] :
        a \in TicketHrefs \cup {NoAnchor}, c \in TicketCells }

\* dict operations on a sequence of entries [key, lists]
HasKey(details, key) == \E i \in 1..Len(details) : details[i].key = key

KeyIndex(details, key) == CHOOSE i \in 1..Len(details) : details[i].key = key

Keys(details) == {details[i].key : i \in 1..Len(details)}

Lists(details, key) == details[KeyIndex(details, key)].lists

\* lines 192-202: the values of one row
TicketData(row) ==
    LET venue_type == row.lines[2]
    IN  [ticket_attr \in Range(TICKET_METADATA_COLUMNS) |->
            CASE ticket_attr = "ticket_type" -> row.lines[1]
              [] ticket_attr = "venue_type" -> venue_type
              [] ticket_attr = "is_streaming" -> return_if_venue_has_streaming(venue_type)
              [] ticket_attr = "ticket_price_gbp" -> ParsePrice(row.price)]

\* lines 206-209
NewGroup(details, key, ticket_data) ==
    Append(details,
           [key |-> key,
            lists |-> [ticket_attr \in Range(TICKET_METADATA_COLUMNS) |->
                          <<ticket_data[ticket_attr]>>]])

\* the values appended to the first group instead of the group of `key`
AppendToFirstGroup(details, key, ticket_data) ==
    [details EXCEPT ![1].lists =
        [ticket_attr \in Range(TICKET_METADATA_COLUMNS) |->
            Append(@[ticket_attr], ticket_data[ticket_attr])]]

\* lines 213-214
AppendToGroup(details, key, ticket_data) ==
    [details EXCEPT ![KeyIndex(details, key)].lists =
        [ticket_attr \in Range(TICKET_METADATA_COLUMNS) |->
            Append(@[ticket_attr], ticket_data[ticket_attr])]]

\* a row whose key is known merged into its group instead of skipped
KeyRowMerging(details, key, ticket_data) ==
    IF ~HasKey(details, key)
    THEN NewGroup(details, key, ticket_data)
    ELSE AppendToGroup(details, key, ticket_data)

\* lines 203-211: a row with an anchor
KeyRow(details, key, ticket_data) ==
    IF ~HasKey(details, key)
    THEN NewGroup(details, key, ticket_data)
    ELSE details

\* a continuation row with no group yet opens the group of `last` (setdefault)
ProcessRowDefaultGroup(details, last, row) ==
    IF Len(row.lines) < 2
    THEN [details |-> details, last |-> last, raised |-> "ValueError"]
    ELSE IF row.anchor # NoAnchor
    THEN [details |-> KeyRow(details, row.anchor, TicketData(row)),
          last |-> row.anchor, raised |-> NoException]
    ELSE IF ~HasKey(details, last)
    THEN [details |-> NewGroup(details, last, TicketData(row)),
          last |-> last, raised |-> NoException]
    ELSE [details |-> AppendToGroup(details, last, TicketData(row)),
          last |-> last, raised |-> NoException]

\* One iteration of the loop of lines 190-214 from the state (details, last):
\* the new state and the exception it raised, if any.
ProcessRow(details, last, row) ==
    IF Len(row.lines) < 2
    THEN [details |-> details, last |-> last, raised |-> "ValueError"]
    ELSE IF row.anchor # NoAnchor
    THEN [details |-> KeyRow(details, row.anchor, TicketData(row)),
          last |-> row.anchor, raised |-> NoException]
    ELSE IF ~HasKey(details, last)
    THEN [details |-> details, last |-> last, raised |-> "KeyError"]
    ELSE [details |-> AppendToGroup(details, last, TicketData(row)),
          last |-> last, raised |-> NoException]

-----------------------------------------------------------------------------
(* Event blocks: extract_event_metadata *)

\* The headings of the event blocks of the model: an event whose key the ticket
\* table can carry and one whose key it cannot, in either order of their titles
EventHeadings == { <<"Recital A", "/event/1">>, <<"Recital B", "/event/3">> }

\* The texts of one event block, as the getters find them. Only the heading
\* (title and href) varies between the blocks of the model.
EventBlocks ==
    { [title |-> heading[1], href |-> heading[2],
       datetime |-> [d |-> 12, b |-> "Oct", Y |-> 2021, H |-> 19, M |-> 30],
       blurb |-> <<"L", "NBSP", "\n", "d">>,
       venue_text |-> <<"Tue", "Holywell">>,
       artists |-> <<"soprano", "piano">>,
       categories |-> <<[category |-> <<"song">>], [category |-> <<"live", "talk">>]>>] :
        heading \in EventHeadings }

\* str.join: the separator and the parts it joins
Join(sep, parts) == [sep |-> sep, parts |-> parts]

MonthNumber(b) ==
    CASE b = "Jan" -> 1 [] b = "Feb" -> 2 [] b = "Mar" -> 3 [] b = "Apr" -> 4
      [] b = "May" -> 5 [] b = "Jun" -> 6 [] b = "Jul" -> 7 [] b = "Aug" -> 8
      [] b = "Sep" -> 9 [] b = "Oct" -> 10 [] b = "Nov" -> 11 [] b = "Dec" -> 12

\* strptime("%d %b %Y %H:%M"), then "%Y-%m-%d" and "%H:%M"
get_event_date_and_time(event_item) ==
    LET dt == event_item.datetime
    IN  << <<dt.Y, MonthNumber(dt.b), dt.d>>, <<dt.H, dt.M>> >>

\* NFKC of the blurb: the no-break space is the compatibility character of the model
get_event_description_blurb(event_item) ==
    [i \in 1..Len(event_item.blurb) |->
        IF event_item.blurb[i] = "NBSP" THEN " " ELSE event_item.blurb[i]]

get_event_title_and_urls(event_item) ==
    <<event_item.title, event_item.href,
      <<"https://www.oxfordlieder.co.uk", event_item.href>> >>

\* rsplit("|")[-1]
get_event_venue(event_item) == event_item.venue_text[Len(event_item.venue_text)]

get_event_artist_list(event_item) == event_item.artists

\* parse_qs(href)["?category"][0]
get_event_categories(event_item) ==
    [i \in 1..Len(event_item.categories) |-> event_item.categories[i].category[1]]

\* lines 232-246: the record of one event
EventRecord(event) ==
    [date |-> get_event_date_and_time(event)[1],
     time |-> get_event_date_and_time(event)[2],
     title |-> get_event_title_and_urls(event)[1],
     short_url |-> get_event_title_and_urls(event)[2],
     long_url |-> get_event_title_and_urls(event)[3],
     description |-> get_event_description_blurb(event),
     venue |-> get_event_venue(event),
     artists |-> Join("\n", get_event_artist_list(event)),
     categories |-> Join("\n", get_event_categories(event)),
     interested |-> 0]

-----------------------------------------------------------------------------
(* DataFrames: [columns, rows], each row a function on the columns *)

EmptyFrame == [columns |-> <<>>, rows |-> <<>>]

RECURSIVE Flatten(_)
Flatten(seqs) == IF seqs = <<>> THEN <<>> ELSE Head(seqs) \o Flatten(Tail(seqs))

\* pd.DataFrame(list of dicts): the columns are the keys of the records
FrameOfRecords(records, fields) ==
    [columns |-> IF records = <<>> THEN <<>> ELSE fields, rows |-> records]

\* the order of the titles that sort_values compares
TitleRank(title) == CASE title = "Recital A" -> 1 [] title = "Recital B" -> 2

IsPermutation(p, n) ==
    /\ DOMAIN p = 1..n
    /\ \A i \in 1..n : \E j \in 1..n : p[j] = i

\* The outcomes of rows.sort_values(by=[title]): the sort is not a stable one, so
\* rows of equal title come in any order.
SortedByTitle(rows) ==
    { [i \in 1..Len(rows) |-> rows[p[i]]] :
        p \in { q \in [1..Len(rows) -> 1..Len(rows)] :
                  /\ IsPermutation(q, Len(rows))
                  /\ \A i, j \in 1..Len(rows) :
                        i < j => TitleRank(rows[q[i]].title) <= TitleRank(rows[q[j]].title) } }

\* lines 330-334: from_dict(orient="index").reset_index().rename(...): one row per
\* key, each cell a list; without entries the frame has the key column only
FrameOfDict(details, event_key) ==
    [columns |-> IF details = <<>> THEN <<event_key>>
                 ELSE <<event_key>> \o TICKET_METADATA_COLUMNS,
     rows |-> [i \in 1..Len(details) |->
                 [c \in {event_key} \cup Range(TICKET_METADATA_COLUMNS) |->
                     IF c = event_key THEN details[i].key ELSE details[i].lists[c]]]]

\* each list reduced to its first element instead of exploded
ExplodeColumnFirst(frame, event_key, column) ==
    [i \in 1..Len(frame.rows) |-> <<frame.rows[i][event_key], frame.rows[i][column][1]>>]

\* pd.Series.explode of one column indexed by the key: (key, element) pairs
ExplodeColumn(frame, event_key, column) ==
    Flatten([i \in 1..Len(frame.rows) |->
                [k \in 1..Len(frame.rows[i][column]) |->
                    <<frame.rows[i][event_key], frame.rows[i][column][k]>>]])

\* line 335: set_index(key).apply(pd.Series.explode).reset_index(). The exploded
\* columns are put side by side; columns of different lengths cannot be aligned.
Explode(frame, event_key) ==
    LET cols == SelectSeq(frame.columns, LAMBDA c : c # event_key)
        exploded == [c \in Range(cols) |-> ExplodeColumn(frame, event_key, c)]
        n == IF cols = <<>> THEN 0 ELSE Len(exploded[cols[1]])
    IN  IF \E c \in Range(cols) :
              \/ Len(exploded[c]) # n
              \/ \E i \in 1..n : exploded[c][i][1] # exploded[cols[1]][i][1]
        THEN [aligned |-> FALSE, frame |-> EmptyFrame]
        ELSE [aligned |-> TRUE,
              frame |-> [columns |-> frame.columns,
                         rows |-> [i \in 1..n |->
                                     [c \in Range(frame.columns) |->
                                         IF c = event_key THEN exploded[cols[1]][i][1]
                                         ELSE exploded[c][i][2]]]]]

\* a cross join: every row of left with every row of right
MergeCross(left, right, event_key) ==
    [columns |-> left.columns \o SelectSeq(right.columns, LAMBDA c : c # event_key),
     rows |-> Flatten([i \in 1..Len(left.rows) |->
                 [k \in 1..Len(right.rows) |->
                    [c \in DOMAIN left.rows[i] \cup DOMAIN right.rows[k] |->
                        IF c \in DOMAIN left.rows[i] THEN left.rows[i][c]
                        ELSE right.rows[k][c]]]])]

\* line 338: pd.merge(left, right, on=key, how="inner"): the rows of left in their
\* order, each with every row of right that has its key, in right's order
Merge(left, right, event_key) ==
    [columns |-> left.columns \o SelectSeq(right.columns, LAMBDA c : c # event_key),
     rows |-> Flatten([i \in 1..Len(left.rows) |->
                 LET matches == SelectSeq(right.rows,
                                    LAMBDA r : r[event_key] = left.rows[i][event_key])
                 IN  [k \in 1..Len(matches) |->
                        [c \in DOMAIN left.rows[i] \cup DOMAIN matches[k] |->
                            IF c \in DOMAIN left.rows[i] THEN left.rows[i][c]
                            ELSE matches[k][c]]]])]

\* frame[columns]
SelectColumns(frame, columns) ==
    [columns |-> columns,
     rows |-> [i \in 1..Len(frame.rows) |-> [c \in Range(columns) |-> frame.rows[i][c]]]]

\* lines 341-343
StreamingToInt(frame) ==
    [frame EXCEPT !.rows =
        [i \in 1..Len(frame.rows) |->
            [frame.rows[i] EXCEPT !["is_streaming"] = IF @ THEN 1 ELSE 0]]]

\* line 344
RenameColumn(frame, old, new) ==
    [columns |-> [i \in 1..Len(frame.columns) |->
                    IF frame.columns[i] = old THEN new ELSE frame.columns[i]],
     rows |-> [i \in 1..Len(frame.rows) |->
                 [c \in (DOMAIN frame.rows[i] \ {old}) \cup {new} |->
                     IF c = new THEN frame.rows[i][old] ELSE frame.rows[i][c]]]]

\* line 345
Shape(frame) == <<Len(frame.rows), Len(frame.columns)>>

\* text.replace("\n", "<br>") on a joined text (artists, categories)
ReplaceNewlineJoined(text) == [text EXCEPT !.sep = IF @ = "\n" THEN "<br>" ELSE @]

\* text.replace("\n", "<br>") on a text of characters (description)
ReplaceNewlineChars(text) ==
    [i \in 1..Len(text) |-> IF text[i] = "\n" THEN "<br>" ELSE text[i]]

\* lines 301-307
generate_event_html_df(frame) ==
    [columns |-> SelectSeq(frame.columns, LAMBDA c : c # "interested"),
     rows |-> [i \in 1..Len(frame.rows) |->
                 [c \in DOMAIN frame.rows[i] \ {"interested"} |->
                     IF c \in {"artists", "categories"}
                     THEN ReplaceNewlineJoined(frame.rows[i][c])
                     ELSE IF c = "description"
                     THEN ReplaceNewlineChars(frame.rows[i][c])
                     ELSE frame.rows[i][c]]]]

-----------------------------------------------------------------------------
(* main *)

Unbound == "unbound"

NotWritten == [written |-> FALSE]

\* the file after a write of `frame` that did not raise
Written(frame) == [written |-> TRUE, frame |-> frame]

Soup == "soup"

EXPORT_FILE_BASE == "oxford_lieder-2021-ticket_list"

export_csv == <<EXPORT_FILE_BASE, ".csv">>

export_html == <<EXPORT_FILE_BASE, ".html">>

event_key == "short_url"

\* lines 41-47: the document, or None after printing the OSError
load_html(readable) ==
    IF readable
    THEN [soup |-> Soup, printed |-> <<>>]
    ELSE [soup |-> None, printed |-> <<[kind |-> "load error", error |-> "OSError"]>>]

\* line 356: the line printed when an export raised OSError; `failed` is the path
\* whose write raised
ExportErrorLine(failed) ==
    [kind |-> "export error", path |-> export_csv, error |-> "OSError"]

\* lines 358-373
SuccessLines(num_rows, num_cols) ==
    << [kind |-> "success", format |-> "CSV", num_rows |-> num_rows,
        num_cols |-> num_cols, path |-> export_csv],
       [kind |-> "success", format |-> "HTML", num_rows |-> num_rows,
        num_cols |-> num_cols, path |-> export_html] >>

Init ==
    /\ pc = "load_event_html"
    /\ exc = NoException
    /\ stdout = <<>>
    /\ event_soup = Unbound
    /\ ticket_soup = Unbound
    /\ event_list = <<>>
    /\ event_metadata_list = <<>>
    /\ ticket_detail_list = <<>>
    /\ ticket_details = <<>>
    /\ last_event_url_key = ""
    /\ event_df = Unbound
    /\ ticket_df = Unbound
    /\ merged_df = Unbound
    /\ shape = Unbound
    /\ files = [path \in {export_csv, export_html} |-> NotWritten]

\* an exception nothing catches ends the run
Crash(exception) ==
    /\ pc' = "crashed"
    /\ exc' = exception

\* line 318
LoadEventHtml ==
    /\ pc = "load_event_html"
    /\ \E readable \in BOOLEAN :
        /\ event_soup' = load_html(readable).soup
        /\ stdout' = stdout \o load_html(readable).printed
    /\ pc' = "extract_all_event_items"
    /\ UNCHANGED <<exc, ticket_soup, event_list, event_metadata_list, ticket_detail_list,
                   ticket_details, last_event_url_key, event_df, ticket_df, merged_df,
                   shape, files>>

\* line 319: soup.find_all on the document
ExtractAllEventItems ==
    /\ pc = "extract_all_event_items"
    /\ IF event_soup = None
       THEN Crash("AttributeError")
       ELSE pc' = "load_ticket_html" /\ exc' = exc
    /\ UNCHANGED <<stdout, event_soup, ticket_soup, event_list, event_metadata_list,
                   ticket_detail_list, ticket_details, last_event_url_key, event_df,
                   ticket_df, merged_df, shape, files>>

\* line 322
LoadTicketHtml ==
    /\ pc = "load_ticket_html"
    /\ \E readable \in BOOLEAN :
        /\ ticket_soup' = load_html(readable).soup
        /\ stdout' = stdout \o load_html(readable).printed
    /\ pc' = "extract_all_ticket_items"
    /\ UNCHANGED <<exc, event_soup, event_list, event_metadata_list, ticket_detail_list,
                   ticket_details, last_event_url_key, event_df, ticket_df, merged_df,
                   shape, files>>

\* line 323: soup.find on the document
ExtractAllTicketItems ==
    /\ pc = "extract_all_ticket_items"
    /\ IF ticket_soup = None
       THEN Crash("AttributeError")
       ELSE pc' = "extract_event_metadata" /\ exc' = exc
    /\ UNCHANGED <<stdout, event_soup, ticket_soup, event_list, event_metadata_list,
                   ticket_detail_list, ticket_details, last_event_url_key, event_df,
                   ticket_df, merged_df, shape, files>>

\* lines 231-247: one iteration of the loop of extract_event_metadata
ExtractEventMetadataStep ==
    /\ pc = "extract_event_metadata"
    /\ Len(event_list) < MaxEvents
    /\ \E event \in EventBlocks :
        /\ event_list' = Append(event_list, event)
        /\ event_metadata_list' = Append(event_metadata_list, EventRecord(event))
    /\ UNCHANGED <<pc, exc, stdout, event_soup, ticket_soup, ticket_detail_list,
                   ticket_details, last_event_url_key, event_df, ticket_df, merged_df,
                   shape, files>>

\* lines 327-329: the loop is over; the frame of the records, sorted by title
SortEventDf ==
    /\ pc = "extract_event_metadata"
    /\ LET frame == FrameOfRecords(event_metadata_list, EVENT_METADATA_COLUMNS)
       IN  IF "title" \notin Range(frame.columns)
           THEN Crash("KeyError") /\ event_df' = event_df
           ELSE /\ \E rows \in SortedByTitle(frame.rows) :
                     event_df' = [frame EXCEPT !.rows = rows]
                /\ pc' = "extract_ticket_price_options"
                /\ exc' = exc
    /\ UNCHANGED <<stdout, event_soup, ticket_soup, event_list, event_metadata_list,
                   ticket_detail_list, ticket_details, last_event_url_key, ticket_df,
                   merged_df, shape, files>>

\* lines 190-214: one iteration of the loop of extract_ticket_price_options
TicketRowStep ==
    /\ pc = "extract_ticket_price_options"
    /\ Len(ticket_detail_list) < MaxRows
    /\ \E row \in TicketRows :
        LET after == ProcessRow(ticket_details, last_event_url_key, row)
        IN  /\ ticket_detail_list' = Append(ticket_detail_list, row)
            /\ ticket_details' = after.details
            /\ last_event_url_key' = after.last
            /\ IF after.raised # NoException
               THEN Crash(after.raised)
               ELSE pc' = pc /\ exc' = exc
    /\ UNCHANGED <<stdout, event_soup, ticket_soup, event_list, event_metadata_list,
                   event_df, ticket_df, merged_df, shape, files>>

\* lines 330-335: the loop is over; the frame of the dict, exploded
ExplodeTicketDf ==
    /\ pc = "extract_ticket_price_options"
    /\ LET exploded == Explode(FrameOfDict(ticket_details, event_key), event_key)
       IN  IF ~exploded.aligned
           THEN Crash("ValueError") /\ ticket_df' = ticket_df
           ELSE /\ ticket_df' = exploded.frame
                /\ pc' = "merge"
                /\ exc' = exc
    /\ UNCHANGED <<stdout, event_soup, ticket_soup, event_list, event_metadata_list,
                   ticket_detail_list, ticket_details, last_event_url_key, event_df,
                   merged_df, shape, files>>

\* lines 338-345
MergeStep ==
    /\ pc = "merge"
    /\ LET joined == Merge(event_df, ticket_df, event_key)
       IN  IF ~(Range(ALL_COLUMNS) \subseteq Range(joined.columns))
           THEN Crash("KeyError") /\ UNCHANGED <<merged_df, shape>>
           ELSE /\ merged_df' = RenameColumn(
                                    StreamingToInt(SelectColumns(joined, ALL_COLUMNS)),
                                    "time", "time (UTC+1)")
                /\ shape' = Shape(merged_df')
                /\ pc' = "to_csv"
                /\ exc' = exc
    /\ UNCHANGED <<stdout, event_soup, ticket_soup, event_list, event_metadata_list,
                   ticket_detail_list, ticket_details, last_event_url_key, event_df,
                   ticket_df, files>>

\* lines 349-350, and 355-356 when the write raises OSError
ToCsv ==
    /\ pc = "to_csv"
    /\ \E writable \in BOOLEAN :
        IF writable
        THEN /\ files' = [files EXCEPT ![export_csv] = Written(merged_df)]
             /\ pc' = "write_html"
             /\ stdout' = stdout
        ELSE /\ files' = files
             /\ pc' = "done"
             /\ stdout' = Append(stdout, ExportErrorLine(export_csv))
    /\ UNCHANGED <<exc, event_soup, ticket_soup, event_list, event_metadata_list,
                   ticket_detail_list, ticket_details, last_event_url_key, event_df,
                   ticket_df, merged_df, shape>>

\* lines 351-354, then 355-356 when the write raises OSError and 357-373 otherwise
WriteHtml ==
    /\ pc = "write_html"
    /\ \E writable \in BOOLEAN :
        IF writable
        THEN /\ files' = [files EXCEPT ![export_html] = Written(generate_event_html_df(merged_df))]
             /\ stdout' = stdout \o SuccessLines(shape[1], shape[2])
        ELSE /\ files' = files
             /\ stdout' = Append(stdout, ExportErrorLine(export_html))
    /\ pc' = "done"
    /\ UNCHANGED <<exc, event_soup, ticket_soup, event_list, event_metadata_list,
                   ticket_detail_list, ticket_details, last_event_url_key, event_df,
                   ticket_df, merged_df, shape>>

Next ==
    \/ LoadEventHtml
    \/ ExtractAllEventItems
    \/ LoadTicketHtml
    \/ ExtractAllTicketItems
    \/ ExtractEventMetadataStep
    \/ SortEventDf
    \/ TicketRowStep
    \/ ExplodeTicketDf
    \/ MergeStep
    \/ ToCsv
    \/ WriteHtml

Spec == Init /\ [][Next]_vars

-----------------------------------------------------------------------------
(* Properties *)

Last(s) == s[Len(s)]

Indices(s) == [i \in 1..Len(s) |-> i]

HasAnchor(row) == row.anchor # NoAnchor

\* the key carried by the most recent row with an anchor at or before row i
CarriedKey(rows, i) ==
    LET before == {j \in 1..i : HasAnchor(rows[j])}
    IN  rows[CHOOSE j \in before : \A m \in before : m <= j].anchor

\* row i is the first row that carries its key
FirstOfKey(rows, i) ==
    /\ HasAnchor(rows[i])
    /\ \A j \in 1..(i - 1) : rows[j].anchor # rows[i].anchor

\* row i is a row whose values the grouping puts into the group of `key`
BelongsTo(rows, i, key) ==
    \/ FirstOfKey(rows, i) /\ rows[i].anchor = key
    \/ ~HasAnchor(rows[i]) /\ CarriedKey(rows, i) = key

\* the values of field `attr` of the rows of the group of `key`, in row order
GroupValues(rows, key, attr) ==
    LET members == SelectSeq(Indices(rows), LAMBDA i : BelongsTo(rows, i, key))
    IN  [n \in 1..Len(members) |-> TicketData(rows[members[n]])[attr]]

PriceList(key) == Lists(ticket_details, key)["ticket_price_gbp"]

\* C1: as long as no row raised, the mapping has exactly the keys carried by the
\* rows read so far, and the lists of each key hold, in row order, the values of
\* the first row carrying the key and of every row without an anchor whose most
\* recent row with an anchor carries the key, and nothing else.
C1_SequentialGrouping ==
    exc = NoException =>
        /\ Keys(ticket_details) = {row.anchor : row \in Range(ticket_detail_list)} \ {NoAnchor}
        /\ \A key \in Keys(ticket_details) :
            \A attr \in Range(TICKET_METADATA_COLUMNS) :
                Lists(ticket_details, key)[attr] = GroupValues(ticket_detail_list, key, attr)

\* C1 witness: rows [R1(K1), R2(no key), R3(K2)] gave two keys, K1 with the prices
\* of R1 and R2 and K2 with the price of R3
C1_Witness ==
    /\ exc = NoException
    /\ Len(ticket_detail_list) = 3
    /\ ticket_detail_list[1].anchor = "/event/1"
    /\ ticket_detail_list[2].anchor = NoAnchor
    /\ ticket_detail_list[3].anchor = "/event/2"
    /\ ticket_detail_list[1].price = 1500
    /\ ticket_detail_list[2].price = 2500
    /\ Keys(ticket_details) = {"/event/1", "/event/2"}
    /\ PriceList("/event/1") = <<15, 25>>
    /\ PriceList("/event/2") = <<15>>

\* C2: an iteration over a row whose anchor carries a key already in the mapping
\* leaves the mapping, every list of every group, as it was.
C2_DuplicateKeyRowSkipped ==
    [][ ( /\ Len(ticket_detail_list') = Len(ticket_detail_list) + 1
          /\ HasAnchor(Last(ticket_detail_list'))
          /\ HasKey(ticket_details, Last(ticket_detail_list').anchor) )
        => ticket_details' = ticket_details ]_vars

\* C2 witness: a second well-formed row carrying the key of the first, with other
\* values, was processed and the group still holds the first row's values only
C2_Witness ==
    /\ exc = NoException
    /\ Len(ticket_detail_list) = 2
    /\ ticket_detail_list[1].anchor = "/event/1"
    /\ ticket_detail_list[2].anchor = "/event/1"
    /\ ticket_detail_list[1].price = 1500
    /\ ticket_detail_list[2].price = 2500
    /\ Len(ticket_detail_list[2].lines) >= 2
    /\ PriceList("/event/1") = <<15>>

MergedDfBound == pc \in {"to_csv", "write_html", "done"}

UniqueShortUrls ==
    \A i, j \in 1..Len(event_metadata_list) :
        event_metadata_list[i].short_url = event_metadata_list[j].short_url => i = j

MergedRowsOf(key) == SelectSeq(merged_df.rows, LAMBDA r : r["short_url"] = key)

\* the column of merged_df that holds the event column c
MergedColumn(c) == IF c = "time" THEN "time (UTC+1)" ELSE c

\* C3: once merged, if the short_urls of the events are unique, an event whose key
\* has a ticket group of N options has exactly N merged rows and any other event
\* none, a ticket key of no event has no merged row, and the event columns of every
\* merged row are those of the event record of its short_url.
C3_InnerJoin ==
    (MergedDfBound /\ UniqueShortUrls) =>
        /\ \A event \in Range(event_metadata_list) :
            Len(MergedRowsOf(event.short_url)) =
                IF HasKey(ticket_details, event.short_url)
                THEN Len(PriceList(event.short_url))
                ELSE 0
        /\ \A key \in Keys(ticket_details) :
            (\A event \in Range(event_metadata_list) : event.short_url # key)
                => MergedRowsOf(key) = <<>>
        /\ \A row \in Range(merged_df.rows) :
            \E event \in Range(event_metadata_list) :
                /\ event.short_url = row["short_url"]
                /\ \A c \in Range(EVENT_METADATA_COLUMNS) : row[MergedColumn(c)] = event[c]

\* C3 witness: two events of different keys, one with a group of two options and
\* one with none, and a ticket group of no event: two merged rows
C3_Witness ==
    /\ MergedDfBound
    /\ UniqueShortUrls
    /\ {event.short_url : event \in Range(event_metadata_list)} = {"/event/1", "/event/3"}
    /\ Keys(ticket_details) = {"/event/1", "/event/2"}
    /\ Len(PriceList("/event/1")) = 2
    /\ Len(merged_df.rows) = 2

TicketDfBound == pc \in {"merge", "to_csv", "write_html", "done"}

TicketRowsOf(key) == SelectSeq(ticket_df.rows, LAMBDA r : r[event_key] = key)

\* C4: in every mapping the four lists of a key have one length N; the explosion of
\* a mapping never fails, and gives for each key exactly N rows, all with that key,
\* whose values collected per field in order are the lists of the key.
C4_ExplodeRoundTrip ==
    /\ \A i \in 1..Len(ticket_details) :
        \A attr \in Range(TICKET_METADATA_COLUMNS) :
            Len(ticket_details[i].lists[attr]) = Len(ticket_details[i].lists["ticket_price_gbp"])
    /\ (pc = "crashed" /\ exc = "ValueError") =>
        (ticket_detail_list # <<>> /\ Len(Last(ticket_detail_list).lines) < 2)
    /\ TicketDfBound =>
        /\ \A row \in Range(ticket_df.rows) : HasKey(ticket_details, row[event_key])
        /\ \A key \in Keys(ticket_details) :
            /\ Len(TicketRowsOf(key)) = Len(PriceList(key))
            /\ \A attr \in Range(TICKET_METADATA_COLUMNS) :
                [n \in 1..Len(TicketRowsOf(key)) |-> TicketRowsOf(key)[n][attr]]
                    = Lists(ticket_details, key)[attr]

\* C4 witness: a mapping with a group of two options and a group of one, exploded
\* into three rows
C4_Witness ==
    /\ pc = "merge"
    /\ Keys(ticket_details) = {"/event/1", "/event/2"}
    /\ PriceList("/event/2") = <<15, 25>>
    /\ Len(ticket_df.rows) = 3

CsvRows == files[export_csv].frame.rows

\* one event block titled "Recital A" with short_url /event/1
C5_OneEvent ==
    /\ Len(event_list) = 1
    /\ event_list[1].title = "Recital A"
    /\ event_list[1].href = "/event/1"

\* the CSV has exactly two rows, of title "Recital A", prices 15 and 25 in this
\* order, and equal in every event column
C5_TwoCsvRows ==
    /\ Len(CsvRows) = 2
    /\ CsvRows[1]["title"] = "Recital A"
    /\ CsvRows[2]["title"] = "Recital A"
    /\ CsvRows[1]["ticket_price_gbp"] = 15
    /\ CsvRows[2]["ticket_price_gbp"] = 25
    /\ \A c \in Range(EVENT_METADATA_COLUMNS) :
        CsvRows[1][MergedColumn(c)] = CsvRows[2][MergedColumn(c)]

\* C5 as stated: two rows that both carry the key /event/1, of prices 15 and 25,
\* give a CSV of two rows.
C5_TwoKeyedRows ==
    ( /\ C5_OneEvent
      /\ Len(ticket_detail_list) = 2
      /\ ticket_detail_list[1].anchor = "/event/1"
      /\ ticket_detail_list[2].anchor = "/event/1"
      /\ ticket_detail_list[1].price = 1500
      /\ ticket_detail_list[2].price = 2500
      /\ files[export_csv].written )
    => C5_TwoCsvRows

C5_Scenario ==
    /\ C5_OneEvent
    /\ Len(ticket_detail_list) = 2
    /\ ticket_detail_list[1].anchor = "/event/1"
    /\ ticket_detail_list[2].anchor = NoAnchor
    /\ ticket_detail_list[1].price = 1500
    /\ ticket_detail_list[2].price = 2500
    /\ files[export_csv].written

\* C5 amended: a row that carries the key /event/1 (price 15) followed by a row
\* without an anchor (price 25) give a CSV of exactly two rows, of title
\* "Recital A", prices 15 and 25, equal in every event column.
C5_KeyedRowAndContinuation == C5_Scenario => C5_TwoCsvRows

\* C5 witness: the scenario ran up to the CSV
C5_Witness == C5_Scenario /\ Len(CsvRows) = 2

IsExportError(line) == line.kind = "export error"

IsSuccess(line) == line.kind = "success"

\* C6: the error line of a failed export names the path whose write failed: the
\* HTML path when the CSV was written, the CSV path otherwise.
C6_ErrorNamesFailedPath ==
    \A line \in Range(stdout) :
        IsExportError(line) =>
            line.path = IF files[export_csv].written THEN export_html ELSE export_csv

\* C7: a run that reached the export ends with both files written and both
\* success lines printed, or with an error line, no success line and not exactly
\* one of the two files written.
C7_NoPartialExport ==
    pc = "done" =>
        \/ /\ files[export_csv].written
           /\ files[export_html].written
           /\ Len(SelectSeq(stdout, IsSuccess)) = 2
        \/ /\ \E line \in Range(stdout) : IsExportError(line)
           /\ \A line \in Range(stdout) : ~IsSuccess(line)
           /\ files[export_csv].written = files[export_html].written

\* C8: after both writes the success lines are exactly two, one per output, and
\* each gives the numbers of rows and columns of the table written to its path.
C8_SuccessLinesCountTheirTable ==
    (pc = "done" /\ files[export_csv].written /\ files[export_html].written) =>
        /\ {line.path : line \in {l \in Range(stdout) : IsSuccess(l)}} = {export_csv, export_html}
        /\ Len(SelectSeq(stdout, IsSuccess)) = 2
        /\ \A line \in Range(stdout) :
            IsSuccess(line) =>
                /\ line.num_rows = Len(files[line.path].frame.rows)
                /\ line.num_cols = Len(files[line.path].frame.columns)

\* C9: a document that could not be loaded is reported and the run does not end
\* with an uncaught exception because of it.
C9_LoadFailureDoesNotCrash ==
    (event_soup = None \/ ticket_soup = None) =>
        /\ \E line \in Range(stdout) : line.kind = "load error"
        /\ exc = NoException

\* C10: the mapping never has a group under the initial last-seen key "", every
\* key of the mapping is the anchor of a row read, and a row without an anchor
\* before any row with one ends the run with an error and an empty mapping that
\* is never returned.
C10_NoGroupWithoutKeyRow ==
    /\ ~HasKey(ticket_details, "")
    /\ \A key \in Keys(ticket_details) :
        \E row \in Range(ticket_detail_list) : HasAnchor(row) /\ row.anchor = key
    /\ (ticket_detail_list # <<>> /\ ~HasAnchor(ticket_detail_list[1])) =>
        /\ pc = "crashed"
        /\ exc \in {"KeyError", "ValueError"}
        /\ ticket_details = <<>>

\* C10 witness: a well-formed row without an anchor came first and raised KeyError
C10_Witness ==
    /\ Len(ticket_detail_list) = 1
    /\ ~HasAnchor(ticket_detail_list[1])
    /\ Len(ticket_detail_list[1].lines) >= 2
    /\ pc = "crashed"
    /\ exc = "KeyError"

====
